---- MODULE Spec2Model ----
(***************************************************************************)
(* Meeting lifecycle and participant state machine of the vemeego backend  *)
(* (backend/app/services/meeting_service.py, backend/app/routers/          *)
(* meetings.py).  The relational store is modelled as three tables         *)
(* (meetings, meeting_participants, meeting_chat_messages); row ids are    *)
(* the positions of the rows in their table.  Every request handler is one *)
(* atomic action; `last` is the response of the request being answered,    *)
(* Idle between requests.  SpecRace runs the handlers that write the       *)
(* status of a meeting or of a participant row one store call at a time;   *)
(* `calls` holds, per user, the request in flight with its position and    *)
(* the rows it has read.                                                   *)
(***************************************************************************)
EXTENDS Integers, Sequences, FiniteSets, TLC

VARIABLES meetings, participants, chat, now, last, calls

vars == <<meetings, participants, chat, now, last, calls>>

(* ------------------------------ bounds --------------------------------- *)
NumUsers == 3
MaxMeetings == 1
ClockMaxMeetings == 2
ClockMaxRows == 2
RaceMaxRows == 2
MaxChat == 1
\* participant rows in the store, per specification
MaxRows == 3
CallMaxRows == 4
AccessMaxRows == 2
FaultMaxRows == 2
\* readings of the clock
MaxClock == 2

(* ------------------------------ values --------------------------------- *)
NoUser == 0
NoTime == 0
NoId == 0

Users == 1..NumUsers

MeetingTypes == {"instant", "scheduled", "webinar"}
MeetingStatuses == {"scheduled", "active", "completed", "cancelled", "not_answered"}
ParticipantRoles == {"host", "assistant", "attendee"}
ParticipantStatuses == {"invited", "accepted", "declined", "joined", "missed"}
UpdateStatuses == {"accepted", "declined"}

TerminalStatuses == {"completed", "cancelled", "not_answered"}

NoMeeting ==
    [id |-> NoId, type |-> "none", status |-> "none", is_open |-> FALSE,
     host_id |-> NoUser, room_name |-> NoTime, end_time |-> NoTime]

NoRow ==
    [id |-> NoId, meeting_id |-> NoId, user_id |-> NoUser, email |-> FALSE,
     role |-> "none", status |-> "none", joined_at |-> NoTime, left_at |-> NoTime]

NoGrants ==
    [room_join |-> FALSE, room |-> NoTime, can_publish |-> FALSE,
     can_subscribe |-> FALSE, can_publish_data |-> FALSE]

(* HTTP status codes of app/core/exceptions.py and the router decorators *)
Ok == 200
Created == 201
BadRequest == 400
Forbidden == 403
NotFound == 404
ServerError == 500

(* The response of a request: op, actor, mid and ref (the participant       *)
(* reference of the path, if any) identify the request, code is the HTTP   *)
(* status, row / mtg / rows / grants the returned body, role the role the  *)
(* token was issued for, roomClose / purge tell whether the handler called *)
(* the media room close and the chat purge, and closed whether the room    *)
(* close succeeded.                                                        *)
Response(op, actor, mid, code) ==
    [op |-> op, actor |-> actor, mid |-> mid, ref |-> NoId, code |-> code,
     row |-> NoRow, mtg |-> NoMeeting, rows |-> <<>>, grants |-> NoGrants,
     role |-> "none", roomClose |-> FALSE, closed |-> FALSE, purge |-> FALSE]

Idle == Response("none", NoUser, NoId, Ok)

\* a request running one store call at a time: its position `pc`, what it
\* still uses of its reads (the meeting; the id and the user of the row),
\* and its status code once returned
NoCall ==
    [op |-> "none", pc |-> "idle", mid |-> NoId, ref |-> NoId, owner |-> NoUser,
     arg |-> "none", mtg |-> NoMeeting, code |-> Ok]

(* ------------------------------ queries -------------------------------- *)
MeetingIds == 1..Len(meetings)
RowIds == 1..Len(participants)

\* .eq("meeting_id", mid)
RowsOf(mid) == {i \in RowIds : participants[i].meeting_id = mid}

\* .eq("meeting_id", mid).eq("user_id", uid)
RowsOfUser(mid, uid) == {i \in RowsOf(mid) : participants[i].user_id = uid}

\* .eq("id", pid).eq("meeting_id", mid)
RowsById(mid, pid) == {i \in RowsOf(mid) : i = pid}

ChatOf(mid) == {i \in 1..Len(chat) : chat[i].meeting_id = mid}

\* data[0] of a select without ORDER BY: any of the matching rows
\* (the store does not fix the order of the rows it returns)
FirstOf(rows) == {participants[i] : i \in rows}

(* ------------------------- access (get_meeting) ------------------------ *)
\* get_meeting raises AuthorizationError unless the meeting is open, the
\* caller is its host, or the caller has a participant row in it
\* get_meeting without the access check
HasAccess_Anyone(mid, uid) == TRUE

\* get_meeting without the exemption of open meetings
HasAccess_InvitedOnly(mid, uid) ==
    meetings[mid].host_id = uid \/ RowsOfUser(mid, uid) # {}

HasAccess(mid, uid) ==
    \/ meetings[mid].is_open
    \/ meetings[mid].host_id = uid
    \/ RowsOfUser(mid, uid) # {}

\* the host check passing for assistants too
IsHost_OrAssistant(mid, uid) ==
    \/ meetings[mid].host_id = uid
    \/ \E i \in RowsOfUser(mid, uid) : participants[i].role \in {"host", "assistant"}

\* the host check passing for everybody
IsHost_Anyone(mid, uid) == TRUE

IsHost(mid, uid) == meetings[mid].host_id = uid

(* ------------------------------ token grants --------------------------- *)
\* attendees never publish, whatever the meeting type
CanPublish_NoAttendee(type, role) == role # "attendee"

CanPublish(type, role) == ~(type = "webinar" /\ role = "attendee")

Grants(m, role) ==
    [room_join |-> TRUE, room |-> m.room_name,
     can_publish |-> CanPublish(m.type, role),
     can_subscribe |-> TRUE, can_publish_data |-> TRUE]

(* --------------------------- auto-termination -------------------------- *)
\* end_meeting: "Don't end if already completed or cancelled"
EndGuard(status) == status \in {"completed", "cancelled"}

\* _check_and_end_meeting_if_needed: "Don't end if already completed or cancelled"
EvaluatorGuard(status) == status \in {"completed", "cancelled"}

\* mark_call_as_missed: the meeting is still open for a not_answered marking
MissedGuard(m) ==
    m.type = "instant" /\ m.status \notin {"completed", "cancelled", "not_answered"}

\* active_participants: not declined, not missed, not left
IsActive(p) == p.status \notin {"declined", "missed"} /\ p.left_at = NoTime

ActiveRows(ps, mid) ==
    {i \in 1..Len(ps) : ps[i].meeting_id = mid /\ IsActive(ps[i])}

\* total_participants: "Only count users, not external"
UserRows(ps, mid) ==
    {i \in 1..Len(ps) : ps[i].meeting_id = mid /\ ps[i].user_id # NoUser}

\* the 1:1 rule with "no participant remains" instead of "at most one"
ShouldEnd_NoneRemains(type, nUsers, nActive) == nActive = 0

\* the 1:1 rule applied to every meeting type
ShouldEnd_AnyType(type, nUsers, nActive) == nActive <= 1

\* the rule without the "all participants left" branch of instant meetings
ShouldEnd_OnlyOneToOne(type, nUsers, nActive) ==
    IF type = "instant" THEN nUsers = 2 /\ nActive <= 1 ELSE nActive = 0

\* the rule evaluated as if the leaving participant's own update had not
\* landed yet: the leaver still counts as active
ShouldEnd_BeforeOwnLeave(type, nUsers, nActive) ==
    IF type = "instant"
    THEN (nUsers = 2 /\ nActive + 1 <= 1) \/ nActive + 1 = 0
    ELSE nActive + 1 = 0

ShouldEnd(type, nUsers, nActive) ==
    IF type = "instant"
    THEN (nUsers = 2 /\ nActive <= 1) \/ nActive = 0
    ELSE nActive = 0

PurgedChat(ch, mid) == SelectSeq(ch, LAMBDA c : c.meeting_id # mid)

Untouched(ms, ch) ==
    [meetings |-> ms, chat |-> ch, roomClose |-> FALSE, closed |-> FALSE,
     purge |-> FALSE]

\* a teardown that stops at the first failing step
Teardown_FailFast(ms, ch, mid, status, t, closeOk, purgeOk) ==
    IF closeOk /\ purgeOk
    THEN [meetings |-> [ms EXCEPT ![mid].status = status, ![mid].end_time = t],
          chat |-> PurgedChat(ch, mid),
          roomClose |-> TRUE, closed |-> TRUE, purge |-> TRUE]
    ELSE [meetings |-> ms, chat |-> ch,
          roomClose |-> TRUE, closed |-> closeOk, purge |-> closeOk]

\* the teardown of end_meeting and _mark_meeting_as_not_answered: close the
\* room (closeOk: the call succeeds), purge the chat (purgeOk), a failure of
\* either being logged and swallowed, then write the terminal status and
\* end_time
Teardown(ms, ch, mid, status, t, closeOk, purgeOk) ==
    [meetings |-> [ms EXCEPT ![mid].status = status, ![mid].end_time = t],
     chat |-> IF purgeOk THEN PurgedChat(ch, mid) ELSE ch,
     roomClose |-> TRUE, closed |-> closeOk, purge |-> TRUE]

\* MeetingService.end_meeting on the store <<ms, ch>>
EndMeetingOn(ms, ch, mid, t, closeOk, purgeOk) ==
    IF EndGuard(ms[mid].status)
    THEN Untouched(ms, ch)
    ELSE Teardown(ms, ch, mid, "completed", t, closeOk, purgeOk)

\* MeetingService._check_and_end_meeting_if_needed on the store <<ms, ps, ch>>
CheckAndEnd(ms, ps, ch, mid, t, closeOk, purgeOk) ==
    IF EvaluatorGuard(ms[mid].status)
    THEN Untouched(ms, ch)
    ELSE IF ShouldEnd(ms[mid].type, Cardinality(UserRows(ps, mid)),
                      Cardinality(ActiveRows(ps, mid)))
         THEN EndMeetingOn(ms, ch, mid, t, closeOk, purgeOk)
         ELSE Untouched(ms, ch)

\* MeetingService._mark_meeting_as_not_answered
MarkNotAnswered(ms, ch, mid, t, closeOk, purgeOk, updateOk) ==
    LET r == Teardown(ms, ch, mid, "not_answered", t, closeOk, purgeOk)
    IN  IF updateOk THEN r ELSE [r EXCEPT !.meetings = ms]

\* mark_call_as_missed without the not_answered marking
MissedFollowUp_Nothing(ms, ps, ch, mid, t, closeOk, purgeOk, updateOk) == Untouched(ms, ch)

\* the second half of mark_call_as_missed, after the row became missed
MissedFollowUp(ms, ps, ch, mid, t, closeOk, purgeOk, updateOk) ==
    IF MissedGuard(ms[mid])
       /\ Cardinality(UserRows(ps, mid)) = 2
       /\ \E i \in 1..Len(ps) : ps[i].meeting_id = mid /\ ps[i].status = "missed"
    THEN MarkNotAnswered(ms, ch, mid, t, closeOk, purgeOk, updateOk)
    ELSE Untouched(ms, ch)

(* ------------------------------- inputs -------------------------------- *)
\* a validated ParticipantInput: a user reference, or (user_id = NoUser) an
\* external invitee named by e-mail
InviteeInputs == [user_id : Users \cup {NoUser}, role : ParticipantRoles]

\* the participants lists of a create request, over the inputs `invs`
ListsOver(invs, maxLen) == UNION {[1..n -> invs] : n \in 0..maxLen}

NewRow(id, mid, inv, status) ==
    [id |-> id, meeting_id |-> mid, user_id |-> inv.user_id,
     email |-> (inv.user_id = NoUser), role |-> inv.role, status |-> status,
     joined_at |-> NoTime, left_at |-> NoTime]

(* ------------------------------- Init ---------------------------------- *)
Init ==
    /\ meetings = <<>>
    /\ participants = <<>>
    /\ chat = <<>>
    /\ now = 1
    /\ last = Idle
    /\ calls = [u \in Users |-> NoCall]

(* ------------------------------ actions -------------------------------- *)
\* the clock of datetime.utcnow() advances between requests
Tick(maxClock) ==
    /\ last = Idle
    /\ UNCHANGED calls
    /\ now < maxClock
    /\ now' = now + 1
    /\ UNCHANGED <<meetings, participants, chat, last>>

\* the handler returns and the response leaves the service
Respond ==
    /\ last # Idle
    /\ UNCHANGED calls
    /\ last' = Idle
    /\ UNCHANGED <<meetings, participants, chat, now>>

\* create_meeting returning the rows of the request, inserted or not
AllParticipants_AsRequested(hostRow, hostOk, listRows, listOk) ==
    <<hostRow>> \o listRows

\* create_meeting: "Build participants list (host + other participants)",
\* of the rows that were inserted
AllParticipants(hostRow, hostOk, listRows, listOk) ==
    (IF hostOk THEN <<hostRow>> ELSE <<>>) \o (IF listOk THEN listRows ELSE <<>>)

\* POST /meetings -> MeetingService.create_meeting.  hostOk / listOk tell
\* whether the insert of the host row / of the invitee rows succeeds.
CreateMeeting(host, type, open, endTime, invs, hostOk, listOk, maxRows, maxMeetings) ==
    LET mid == Len(meetings) + 1
        m == [id |-> mid, type |-> type, status |-> "scheduled", is_open |-> open,
              host_id |-> host, room_name |-> now, end_time |-> endTime]
        base == Len(participants)
        hostRow == NewRow(base + 1, mid, [user_id |-> host, role |-> "host"],
                          "accepted")
        off == base + (IF hostOk THEN 1 ELSE 0)
        listRows == [k \in 1..Len(invs) |-> NewRow(off + k, mid, invs[k], "invited")]
    IN  /\ last = Idle
        /\ UNCHANGED calls
        /\ Len(meetings) < maxMeetings
        /\ base + 1 + Len(invs) <= maxRows
        /\ meetings' = Append(meetings, m)
        /\ participants' = participants
                              \o (IF hostOk THEN <<hostRow>> ELSE <<>>)
                              \o (IF listOk THEN listRows ELSE <<>>)
        /\ last' = [Response("create", host, mid, Created) EXCEPT
                        !.mtg = m,
                        !.rows = AllParticipants(hostRow, hostOk, listRows, listOk)]
        /\ UNCHANGED <<chat, now>>

\* any meeting endpoint on a meeting id the store does not hold
UnknownMeeting(op, actor, mid) ==
    /\ last = Idle
    /\ UNCHANGED calls
    /\ mid \notin MeetingIds
    /\ last' = Response(op, actor, mid, NotFound)
    /\ UNCHANGED <<meetings, participants, chat, now>>

\* POST /meetings/{id}/token -> MeetingService.generate_token
GenerateToken(actor, mid) ==
    /\ last = Idle
    /\ UNCHANGED calls
    /\ mid \in MeetingIds
    /\ UNCHANGED <<meetings, participants, chat, now>>
    /\ IF ~HasAccess(mid, actor)
       THEN last' = Response("token", actor, mid, Forbidden)
       ELSE IF RowsOfUser(mid, actor) # {}
       THEN \E p \in FirstOf(RowsOfUser(mid, actor)) :
                last' = [Response("token", actor, mid, Ok) EXCEPT
                            !.role = p.role, !.grants = Grants(meetings[mid], p.role)]
       ELSE IF meetings[mid].is_open
       THEN last' = [Response("token", actor, mid, Ok) EXCEPT
                        !.role = "attendee",
                        !.grants = Grants(meetings[mid], "attendee")]
       ELSE last' = Response("token", actor, mid, Forbidden)

\* invite_participant without the check for an existing row
ExistingRows_None(mid, uid) == {}

\* "Check if already participant": .eq("user_id", p_data.get("user_id"))
ExistingRows(mid, uid) == IF uid = NoUser THEN {} ELSE RowsOfUser(mid, uid)

\* POST /meetings/{id}/invite -> MeetingService.invite_participant.
\* For an e-mail invitee the existence check compares user_id with None, which
\* the store may reject (lookupOk = FALSE) or answer with no row.
InviteParticipant(actor, mid, inv, lookupOk, maxRows) ==
    /\ last = Idle
    /\ UNCHANGED calls
    /\ mid \in MeetingIds
    /\ UNCHANGED <<meetings, chat, now>>
    /\ IF ~HasAccess(mid, actor) \/ ~IsHost(mid, actor)
       THEN /\ last' = Response("invite", actor, mid, Forbidden)
            /\ UNCHANGED participants
       ELSE IF inv.user_id = NoUser /\ ~lookupOk
       THEN /\ last' = Response("invite", actor, mid, ServerError)
            /\ UNCHANGED participants
       ELSE IF ExistingRows(mid, inv.user_id) # {}
       THEN /\ \E p \in FirstOf(ExistingRows(mid, inv.user_id)) :
                  last' = [Response("invite", actor, mid, Ok) EXCEPT !.row = p]
            /\ UNCHANGED participants
       ELSE LET r == NewRow(Len(participants) + 1, mid, inv, "invited")
            IN  /\ Len(participants) < maxRows
                /\ participants' = Append(participants, r)
                /\ last' = [Response("invite", actor, mid, Ok) EXCEPT !.row = r]

\* POST /meetings/{id}/chat -> MeetingService.send_chat_message
SendChatMessage(actor, mid, maxChat) ==
    /\ last = Idle
    /\ UNCHANGED calls
    /\ mid \in MeetingIds
    /\ UNCHANGED <<meetings, participants, now>>
    /\ IF ~HasAccess(mid, actor)
       THEN /\ last' = Response("chat_send", actor, mid, Forbidden)
            /\ UNCHANGED chat
       ELSE /\ Len(chat) < maxChat
            /\ chat' = Append(chat, [meeting_id |-> mid, sender_id |-> actor])
            /\ last' = Response("chat_send", actor, mid, Created)

\* GET /meetings/{id}/chat -> MeetingService.get_chat_messages
GetChatMessages(actor, mid) ==
    /\ last = Idle
    /\ UNCHANGED calls
    /\ mid \in MeetingIds
    /\ UNCHANGED <<meetings, participants, chat, now>>
    /\ last' = Response("chat_read", actor, mid,
                        IF HasAccess(mid, actor) THEN Ok ELSE Forbidden)

\* a participant reference of a request path: a uuid, which may be the id of
\* a participant row or the id of a user
RefsUpTo(maxRows) == 1..(IF maxRows > NumUsers THEN maxRows ELSE NumUsers)

\* the lookup trying the user id before the row id
ResolveRef_UserFirst(mid, ref) ==
    IF RowsOfUser(mid, ref) # {} THEN RowsOfUser(mid, ref) ELSE RowsById(mid, ref)

\* update_participant_status: "Try as participant record ID first",
\* "If that fails, try as user_id"
ResolveRef(mid, ref) ==
    IF RowsById(mid, ref) # {} THEN RowsById(mid, ref) ELSE RowsOfUser(mid, ref)

\* a decline recorded the way a leave is, with the time of leaving
AcceptOrDecline_AsLeave(p, newStatus, t) ==
    IF newStatus = "accepted"
    THEN [p EXCEPT !.status = newStatus, !.joined_at = t]
    ELSE [p EXCEPT !.status = newStatus, !.left_at = t]

\* update_participant_status: update_data is the status, and joined_at
\* "if status_update.status == 'accepted'"
AcceptOrDecline(p, newStatus, t) ==
    IF newStatus = "accepted"
    THEN [p EXCEPT !.status = newStatus, !.joined_at = t]
    ELSE [p EXCEPT !.status = newStatus]

\* PATCH /meetings/{id}/participants/{ref}/status
\*   -> MeetingService.update_participant_status
UpdateParticipantStatus(actor, mid, ref, newStatus) ==
    /\ last = Idle
    /\ UNCHANGED calls
    /\ mid \in MeetingIds
    /\ UNCHANGED <<meetings, chat, now>>
    /\ IF ResolveRef(mid, ref) = {}
       THEN /\ last' = [Response("update_status", actor, mid, NotFound)
                           EXCEPT !.ref = ref]
            /\ UNCHANGED participants
       ELSE \E p \in FirstOf(ResolveRef(mid, ref)) :
              IF ~HasAccess(mid, actor) \/ ~(p.user_id = actor \/ IsHost(mid, actor))
              THEN /\ last' = [Response("update_status", actor, mid, Forbidden)
                                  EXCEPT !.ref = ref]
                   /\ UNCHANGED participants
              ELSE LET q == AcceptOrDecline(p, newStatus, now)
                   IN  /\ participants' = [participants EXCEPT ![p.id] = q]
                       /\ last' = [Response("update_status", actor, mid, Ok)
                                      EXCEPT !.ref = ref, !.row = q]

\* leave_meeting: "Mark as declined since they left"
Left(p, t) == [p EXCEPT !.left_at = t, !.status = "declined"]

\* POST /meetings/{id}/leave -> MeetingService.leave_meeting
LeaveMeeting(actor, mid, closeOk, purgeOk) ==
    /\ last = Idle
    /\ UNCHANGED calls
    /\ mid \in MeetingIds
    /\ UNCHANGED now
    /\ IF RowsOfUser(mid, actor) = {}
       THEN /\ last' = Response("leave", actor, mid, NotFound)
            /\ UNCHANGED <<meetings, participants, chat>>
       ELSE \E p \in FirstOf(RowsOfUser(mid, actor)) :
              LET q == Left(p, now)
                  ps == [participants EXCEPT ![p.id] = q]
                  r == CheckAndEnd(meetings, ps, chat, mid, now, closeOk, purgeOk)
              IN  /\ participants' = ps
                  /\ meetings' = r.meetings
                  /\ chat' = r.chat
                  /\ last' = [Response("leave", actor, mid, Ok) EXCEPT
                                 !.row = q, !.roomClose = r.roomClose, !.closed = r.closed,
                                 !.purge = r.purge]

\* POST /meetings/{id}/end -> routers.end_meeting -> MeetingService.end_meeting
EndMeeting(actor, mid, closeOk, purgeOk) ==
    /\ last = Idle
    /\ UNCHANGED calls
    /\ mid \in MeetingIds
    /\ UNCHANGED <<participants, now>>
    /\ IF ~HasAccess(mid, actor) \/ ~IsHost(mid, actor)
       THEN /\ last' = Response("end", actor, mid, Forbidden)
            /\ UNCHANGED <<meetings, chat>>
       ELSE LET r == EndMeetingOn(meetings, chat, mid, now, closeOk, purgeOk)
            IN  /\ meetings' = r.meetings
                /\ chat' = r.chat
                /\ last' = [Response("end", actor, mid, Ok) EXCEPT
                               !.mtg = r.meetings[mid], !.roomClose = r.roomClose, !.closed = r.closed,
                               !.purge = r.purge]

\* mark_call_as_missed without the check of the status
StillInvited_Always(p) == TRUE

\* mark_call_as_missed: "Only mark as missed if still in invited status"
StillInvited(p) == p.status = "invited"

\* POST /meetings/{id}/participants/{pid}/missed
\*   -> routers.mark_call_as_missed -> MeetingService.mark_call_as_missed
MarkCallAsMissed(actor, mid, pid, closeOk, purgeOk, updateOk) ==
    /\ last = Idle
    /\ UNCHANGED calls
    /\ mid \in MeetingIds
    /\ UNCHANGED now
    /\ IF ~HasAccess(mid, actor)
       THEN /\ last' = [Response("missed", actor, mid, Forbidden) EXCEPT !.ref = pid]
            /\ UNCHANGED <<meetings, participants, chat>>
       ELSE IF RowsById(mid, pid) = {}
       THEN /\ last' = [Response("missed", actor, mid, NotFound) EXCEPT !.ref = pid]
            /\ UNCHANGED <<meetings, participants, chat>>
       ELSE LET p == participants[pid]
            IN  IF ~((p.user_id # NoUser /\ p.user_id = actor) \/ IsHost(mid, actor))
                THEN /\ last' = [Response("missed", actor, mid, Forbidden)
                                    EXCEPT !.ref = pid]
                     /\ UNCHANGED <<meetings, participants, chat>>
                ELSE IF ~StillInvited(p)
                THEN /\ last' = [Response("missed", actor, mid, Ok) EXCEPT
                                    !.ref = pid, !.row = p]
                     /\ UNCHANGED <<meetings, participants, chat>>
                ELSE LET q == [p EXCEPT !.status = "missed"]
                         ps == [participants EXCEPT ![pid] = q]
                         r == MissedFollowUp(meetings, ps, chat, mid, now,
                                             closeOk, purgeOk, updateOk)
                     IN  /\ participants' = ps
                         /\ meetings' = r.meetings
                         /\ chat' = r.chat
                         /\ last' = [Response("missed", actor, mid, Ok) EXCEPT
                                        !.ref = pid, !.row = q, !.roomClose = r.roomClose, !.closed = r.closed,
                                        !.purge = r.purge]

(* --------------------------- specification ----------------------------- *)
MeetingOps ==
    {"token", "invite", "chat_send", "chat_read", "update_status", "leave",
     "end", "missed"}

\* The requests over the input domains d.  d.hostOks, d.listOks, d.closeOks,
\* d.purgeOks and d.updateOks tell which outcomes (TRUE: success) the insert
\* of the host row, the insert of the invitee rows, the room close, the chat
\* purge and the not_answered update may have; the other store calls
\* succeed, but for the existence check of an e-mail invite.
Requests(d) ==
    \/ \E host \in d.hosts, type \in d.types, open \in d.opens,
          endTime \in d.endTimes, invs \in d.lists, hostOk \in d.hostOks, listOk \in d.listOks :
            CreateMeeting(host, type, open, endTime, invs, hostOk, listOk,
                          d.maxRows, d.maxMeetings)
    \/ \E op \in MeetingOps, actor \in Users, mid \in 1..d.maxMeetings :
            UnknownMeeting(op, actor, mid)
    \/ \E actor \in Users, mid \in 1..d.maxMeetings : GenerateToken(actor, mid)
    \/ \E actor \in Users, mid \in 1..d.maxMeetings, inv \in d.invs,
          lookupOk \in BOOLEAN :
            InviteParticipant(actor, mid, inv, lookupOk, d.maxRows)
    \/ \E actor \in Users, mid \in 1..d.maxMeetings :
            SendChatMessage(actor, mid, d.maxChat)
    \/ \E actor \in Users, mid \in 1..d.maxMeetings : GetChatMessages(actor, mid)
    \/ \E actor \in Users, mid \in 1..d.maxMeetings, ref \in RefsUpTo(d.maxRows),
          st \in UpdateStatuses : UpdateParticipantStatus(actor, mid, ref, st)
    \/ \E actor \in Users, mid \in 1..d.maxMeetings,
          closeOk \in d.closeOks, purgeOk \in d.purgeOks :
            LeaveMeeting(actor, mid, closeOk, purgeOk)
    \/ \E actor \in Users, mid \in 1..d.maxMeetings,
          closeOk \in d.closeOks, purgeOk \in d.purgeOks :
            EndMeeting(actor, mid, closeOk, purgeOk)
    \/ \E actor \in Users, mid \in 1..d.maxMeetings, pid \in 1..d.maxRows,
          closeOk \in d.closeOks, purgeOk \in d.purgeOks, updateOk \in d.updateOks :
            MarkCallAsMissed(actor, mid, pid, closeOk, purgeOk, updateOk)

Attendees(users) == [user_id : users, role : {"attendee"}]

\* Spec (lifecycle): user 1 creates one invitation-only meeting of any type;
\* the invitees are users 2 and 3 and external e-mail invitees, as attendees
\* (an invite may also name user 1).
SpecDomain ==
    [hosts |-> {1}, types |-> MeetingTypes, opens |-> {FALSE},
     endTimes |-> {NoTime}, hostOks |-> {TRUE}, listOks |-> {TRUE}, closeOks |-> {TRUE},
     purgeOks |-> {TRUE}, updateOks |-> {TRUE},
     invs |-> Attendees({1, 2, 3, NoUser}),
     lists |-> ListsOver(Attendees({2, 3, NoUser}), MaxRows - 1),
     maxRows |-> MaxRows, maxChat |-> MaxChat, maxMeetings |-> MaxMeetings]

Next == Respond \/ Requests(SpecDomain)

Spec == Init /\ [][Next]_vars

\* SpecCall (a call with external invitees): user 1 creates one instant,
\* invitation-only meeting; the invitees are user 2 and e-mail invitees.
CallDomain ==
    [hosts |-> {1}, types |-> {"instant"}, opens |-> {FALSE},
     endTimes |-> {NoTime}, hostOks |-> {TRUE}, listOks |-> {TRUE}, closeOks |-> {TRUE},
     purgeOks |-> {TRUE}, updateOks |-> {TRUE},
     invs |-> Attendees({2, NoUser}),
     lists |-> ListsOver(Attendees({2, NoUser}), 1),
     maxRows |-> CallMaxRows, maxChat |-> MaxChat, maxMeetings |-> MaxMeetings]

NextCall == Respond \/ Requests(CallDomain)

SpecCall == Init /\ [][NextCall]_vars

\* SpecAccess (access and tokens): user 1 creates one meeting of any type,
\* open or not, with at most one invitee of any kind and role.
AccessDomain ==
    [hosts |-> {1}, types |-> MeetingTypes, opens |-> BOOLEAN,
     endTimes |-> {NoTime}, hostOks |-> {TRUE}, listOks |-> {TRUE}, closeOks |-> {TRUE},
     purgeOks |-> {TRUE}, updateOks |-> {TRUE},
     invs |-> InviteeInputs,
     lists |-> ListsOver(InviteeInputs, AccessMaxRows - 1),
     maxRows |-> AccessMaxRows, maxChat |-> MaxChat, maxMeetings |-> MaxMeetings]

NextAccess == Respond \/ Requests(AccessDomain)

SpecAccess == Init /\ [][NextAccess]_vars

\* SpecFault (failing store and media calls): user 1 creates one meeting of
\* any type, open or not, with at most one invitee (user 2 or an e-mail
\* invitee); the inserts of the participant rows, the room close, the chat
\* purge and the not_answered update may each fail.
FaultDomain ==
    [hosts |-> {1}, types |-> MeetingTypes, opens |-> BOOLEAN,
     endTimes |-> {NoTime}, hostOks |-> BOOLEAN, listOks |-> BOOLEAN,
     closeOks |-> BOOLEAN, purgeOks |-> BOOLEAN, updateOks |-> BOOLEAN,
     invs |-> Attendees({2, NoUser}),
     lists |-> ListsOver(Attendees({2, NoUser}), FaultMaxRows - 1),
     maxRows |-> FaultMaxRows, maxChat |-> MaxChat, maxMeetings |-> MaxMeetings]

NextFault == Respond \/ Requests(FaultDomain)

SpecFault == Init /\ [][NextFault]_vars

\* SpecClock (time and several meetings): the clock advances between
\* requests; user 1 creates up to two scheduled meetings, with or without a
\* planned end time: one meeting with user 2 as invitee, or two without
\* invitees.
ClockDomain ==
    [hosts |-> {1}, types |-> {"scheduled"}, opens |-> {FALSE},
     endTimes |-> {NoTime, MaxClock}, hostOks |-> {TRUE}, listOks |-> {TRUE},
     closeOks |-> {TRUE}, purgeOks |-> {TRUE}, updateOks |-> {TRUE},
     invs |-> Attendees({2}),
     lists |-> ListsOver(Attendees({2}), 1),
     maxRows |-> ClockMaxRows, maxChat |-> MaxChat, maxMeetings |-> ClockMaxMeetings]

NextClock == Tick(MaxClock) \/ Respond \/ Requests(ClockDomain)

SpecClock == Init /\ [][NextClock]_vars

(* ------------------- handlers, one store call per step ----------------- *)
\* user u has no request in flight
Free(u) == calls[u].pc \in {"idle", "returned"}

At(u, op, pc) == calls[u].op = op /\ calls[u].pc = pc

Goto(u, c) == calls' = [calls EXCEPT ![u] = c]

\* the handler of call c returns with status code `code`
Returned(c, code) ==
    [NoCall EXCEPT !.op = c.op, !.pc = "returned", !.mid = c.mid, !.code = code]

\* leave_meeting: get_participant_by_user
LeaveLookup(u, mid) ==
    /\ Free(u)
    /\ mid \in MeetingIds
    /\ UNCHANGED <<meetings, participants, chat, now, last>>
    /\ LET c == [NoCall EXCEPT !.op = "leave", !.mid = mid]
       IN  IF RowsOfUser(mid, u) = {}
           THEN Goto(u, Returned(c, NotFound))
           ELSE \E p \in FirstOf(RowsOfUser(mid, u)) :
                    Goto(u, [c EXCEPT !.pc = "leave_write", !.ref = p.id])

\* leave_meeting: the update of left_at and status, by row id
LeaveWrite(u) ==
    /\ At(u, "leave", "leave_write")
    /\ participants' = [participants EXCEPT
                           ![calls[u].ref] = Left(participants[calls[u].ref], now)]
    /\ Goto(u, [calls[u] EXCEPT !.pc = "check_meeting"])
    /\ UNCHANGED <<meetings, chat, now, last>>

\* _check_and_end_meeting_if_needed: the select of the meeting and the guard
CheckReadMeeting(u) ==
    /\ At(u, "leave", "check_meeting")
    /\ UNCHANGED <<meetings, participants, chat, now, last>>
    /\ IF EvaluatorGuard(meetings[calls[u].mid].status)
       THEN Goto(u, Returned(calls[u], Ok))
       ELSE Goto(u, [calls[u] EXCEPT !.pc = "check_rows",
                                     !.mtg = meetings[calls[u].mid]])

\* _check_and_end_meeting_if_needed: the select of the participants and the
\* rule, on the meeting as it was read
CheckReadRows(u) ==
    /\ At(u, "leave", "check_rows")
    /\ UNCHANGED <<meetings, participants, chat, now, last>>
    /\ IF ShouldEnd(calls[u].mtg.type,
                    Cardinality(UserRows(participants, calls[u].mid)),
                    Cardinality(ActiveRows(participants, calls[u].mid)))
       THEN Goto(u, [calls[u] EXCEPT !.pc = "end_read"])
       ELSE Goto(u, Returned(calls[u], Ok))

\* routers.end_meeting: get_meeting and the host check
EndAdmit(u, mid) ==
    /\ Free(u)
    /\ mid \in MeetingIds
    /\ UNCHANGED <<meetings, participants, chat, now, last>>
    /\ LET c == [NoCall EXCEPT !.op = "end", !.mid = mid]
       IN  IF ~HasAccess(mid, u) \/ ~IsHost(mid, u)
           THEN Goto(u, Returned(c, Forbidden))
           ELSE Goto(u, [c EXCEPT !.pc = "end_read"])

\* end_meeting (called by the router or by the evaluator): the select of the
\* meeting and the guard
EndReadMeeting(u) ==
    /\ calls[u].op \in {"leave", "end"} /\ calls[u].pc = "end_read"
    /\ UNCHANGED <<meetings, participants, chat, now, last>>
    /\ IF EndGuard(meetings[calls[u].mid].status)
       THEN Goto(u, Returned(calls[u], Ok))
       ELSE Goto(u, [calls[u] EXCEPT !.pc = "end_purge"])

\* end_meeting: the room close, then the delete of the chat messages
EndPurge(u) ==
    /\ calls[u].op \in {"leave", "end"} /\ calls[u].pc = "end_purge"
    /\ chat' = PurgedChat(chat, calls[u].mid)
    /\ Goto(u, [calls[u] EXCEPT !.pc = "end_write"])
    /\ UNCHANGED <<meetings, participants, now, last>>

\* end_meeting: the update of status and end_time, by meeting id
EndWrite(u) ==
    /\ calls[u].op \in {"leave", "end"} /\ calls[u].pc = "end_write"
    /\ meetings' = [meetings EXCEPT ![calls[u].mid].status = "completed",
                                    ![calls[u].mid].end_time = now]
    /\ Goto(u, Returned(calls[u], Ok))
    /\ UNCHANGED <<participants, chat, now, last>>

\* routers.mark_call_as_missed: get_meeting, the select of the row and the
\* participant-or-host check
MissedAdmit(u, mid, pid) ==
    /\ Free(u)
    /\ mid \in MeetingIds
    /\ UNCHANGED <<meetings, participants, chat, now, last>>
    /\ LET c == [NoCall EXCEPT !.op = "missed", !.mid = mid, !.ref = pid]
       IN  IF ~HasAccess(mid, u)
           THEN Goto(u, Returned(c, Forbidden))
           ELSE IF RowsById(mid, pid) = {}
           THEN Goto(u, Returned(c, NotFound))
           ELSE IF ~(participants[pid].user_id = u \/ IsHost(mid, u))
           THEN Goto(u, Returned(c, Forbidden))
           ELSE Goto(u, [c EXCEPT !.pc = "missed_meeting"])

\* mark_call_as_missed: the select of the meeting
MissedReadMeeting(u) ==
    /\ At(u, "missed", "missed_meeting")
    /\ Goto(u, [calls[u] EXCEPT !.pc = "missed_row", !.mtg = meetings[calls[u].mid]])
    /\ UNCHANGED <<meetings, participants, chat, now, last>>

\* mark_call_as_missed: the select of the row and the check of its status
MissedReadRow(u) ==
    /\ At(u, "missed", "missed_row")
    /\ UNCHANGED <<meetings, participants, chat, now, last>>
    /\ IF StillInvited(participants[calls[u].ref])
       THEN Goto(u, [calls[u] EXCEPT !.pc = "missed_write"])
       ELSE Goto(u, Returned(calls[u], Ok))

\* mark_call_as_missed: the update of the status, by row id, then the test
\* of the meeting as it was read
MissedWrite(u) ==
    /\ At(u, "missed", "missed_write")
    /\ participants' = [participants EXCEPT ![calls[u].ref].status = "missed"]
    /\ IF MissedGuard(calls[u].mtg)
       THEN Goto(u, [calls[u] EXCEPT !.pc = "missed_rows"])
       ELSE Goto(u, Returned(calls[u], Ok))
    /\ UNCHANGED <<meetings, chat, now, last>>

\* mark_call_as_missed: the select of all participants and the 1:1 test
MissedReadRows(u) ==
    /\ At(u, "missed", "missed_rows")
    /\ UNCHANGED <<meetings, participants, chat, now, last>>
    /\ IF /\ Cardinality(UserRows(participants, calls[u].mid)) = 2
          /\ \E i \in RowsOf(calls[u].mid) : participants[i].status = "missed"
       THEN Goto(u, [calls[u] EXCEPT !.pc = "not_answered_purge"])
       ELSE Goto(u, Returned(calls[u], Ok))

\* _mark_meeting_as_not_answered: the room close, then the delete of the chat
NotAnsweredPurge(u) ==
    /\ At(u, "missed", "not_answered_purge")
    /\ chat' = PurgedChat(chat, calls[u].mid)
    /\ Goto(u, [calls[u] EXCEPT !.pc = "not_answered_write"])
    /\ UNCHANGED <<meetings, participants, now, last>>

\* _mark_meeting_as_not_answered: the update of status and end_time
NotAnsweredWrite(u) ==
    /\ At(u, "missed", "not_answered_write")
    /\ meetings' = [meetings EXCEPT ![calls[u].mid].status = "not_answered",
                                    ![calls[u].mid].end_time = now]
    /\ Goto(u, Returned(calls[u], Ok))
    /\ UNCHANGED <<participants, chat, now, last>>

\* update_participant_status: the lookup of the row, by id and then by user
UpdateLookup(u, mid, ref, newStatus) ==
    /\ Free(u)
    /\ mid \in MeetingIds
    /\ UNCHANGED <<meetings, participants, chat, now, last>>
    /\ LET c == [NoCall EXCEPT !.op = "update_status", !.mid = mid, !.arg = newStatus]
       IN  IF ResolveRef(mid, ref) = {}
           THEN Goto(u, Returned(c, NotFound))
           ELSE \E p \in FirstOf(ResolveRef(mid, ref)) :
                    Goto(u, [c EXCEPT !.pc = "update_admit", !.ref = p.id,
                                      !.owner = p.user_id])

\* update_participant_status: get_meeting and the owner-or-host check
UpdateAdmit(u) ==
    /\ At(u, "update_status", "update_admit")
    /\ UNCHANGED <<meetings, participants, chat, now, last>>
    /\ IF ~HasAccess(calls[u].mid, u)
          \/ ~(calls[u].owner = u \/ IsHost(calls[u].mid, u))
       THEN Goto(u, Returned(calls[u], Forbidden))
       ELSE Goto(u, [calls[u] EXCEPT !.pc = "update_write"])

\* update_participant_status: the update of status (and joined_at), by row id
UpdateWrite(u) ==
    /\ At(u, "update_status", "update_write")
    /\ participants' = [participants EXCEPT ![calls[u].ref] =
                           AcceptOrDecline(participants[calls[u].ref], calls[u].arg, now)]
    /\ Goto(u, Returned(calls[u], Ok))
    /\ UNCHANGED <<meetings, chat, now, last>>

\* SpecRace (concurrent requests): user 1 creates one instant or scheduled
\* meeting with at most one invitee (user 2); then users 1 and 2 each run
\* leave, end, mark-missed and update_status requests, one at a time per
\* user, interleaved with the other user's at every store call, while the
\* clock advances.
RaceDomain ==
    [hosts |-> {1}, types |-> {"instant", "scheduled"}, opens |-> {FALSE},
     endTimes |-> {NoTime}, hostOks |-> {TRUE}, listOks |-> {TRUE}, closeOks |-> {TRUE},
     purgeOks |-> {TRUE}, updateOks |-> {TRUE},
     invs |-> Attendees({2}),
     lists |-> ListsOver(Attendees({2}), RaceMaxRows - 1),
     maxRows |-> RaceMaxRows, maxChat |-> MaxChat, maxMeetings |-> MaxMeetings]

RaceUsers == 1..RaceMaxRows

NextRace ==
    \/ \E host \in RaceDomain.hosts, type \in RaceDomain.types, invs \in RaceDomain.lists :
            CreateMeeting(host, type, FALSE, NoTime, invs, TRUE, TRUE,
                          RaceDomain.maxRows, RaceDomain.maxMeetings)
    \/ Respond
    \/ Tick(MaxClock)
    \/ \E u \in RaceUsers, mid \in 1..MaxMeetings :
            \/ LeaveLookup(u, mid)
            \/ EndAdmit(u, mid)
            \/ \E pid \in 1..RaceMaxRows : MissedAdmit(u, mid, pid)
            \/ \E ref \in 1..RaceMaxRows, st \in UpdateStatuses :
                    UpdateLookup(u, mid, ref, st)
    \/ \E u \in RaceUsers :
            \/ LeaveWrite(u) \/ CheckReadMeeting(u) \/ CheckReadRows(u)
            \/ EndReadMeeting(u) \/ EndPurge(u) \/ EndWrite(u)
            \/ MissedReadMeeting(u) \/ MissedReadRow(u) \/ MissedWrite(u)
            \/ MissedReadRows(u) \/ NotAnsweredPurge(u) \/ NotAnsweredWrite(u)
            \/ UpdateAdmit(u) \/ UpdateWrite(u)

SpecRace == Init /\ [][NextRace]_vars

(* ------------------------------- claims -------------------------------- *)
\* the meeting a response is about, and what the request found
Answered(op) == last.op = op /\ last.mid \in MeetingIds
AnsweredOk(op) == Answered(op) /\ last.code = Ok

\* a handler step of request `op` on meeting m (handlers start from Idle)
Handles(op, m) == last = Idle /\ last'.op = op /\ last'.mid = m

AllInactive(ps, rows) == \A i \in rows : ~IsActive(ps[i])

\* C1: once a meeting's status is completed, cancelled or not_answered, no
\* operation changes it to a different value.
C1_TerminalStatusIsKept ==
    [][\A m \in MeetingIds :
          meetings[m].status \in TerminalStatuses
             => meetings'[m].status = meetings[m].status]_vars

\* C2 as stated: in an instant meeting with exactly 2 user-participants,
\* once both are declined, missed or have left, the meeting is completed or
\* not_answered after the evaluator has run (the evaluator runs in leave).
C2_EndedOnceBothGone ==
    \A m \in MeetingIds :
       ( /\ AnsweredOk("leave") /\ last.mid = m
         /\ meetings[m].type = "instant"
         /\ Cardinality(UserRows(participants, m)) = 2
         /\ AllInactive(participants, UserRows(participants, m)) )
       => meetings[m].status \in {"completed", "not_answered"}

\* C2 amended: ... and at most one participant of the meeting (an external
\* e-mail invitee) is still active, the meeting is completed or not_answered
\* after the evaluator has run.
C2_EndedOnceBothGoneAndOneLeft ==
    \A m \in MeetingIds :
       ( /\ AnsweredOk("leave") /\ last.mid = m
         /\ meetings[m].type = "instant"
         /\ Cardinality(UserRows(participants, m)) = 2
         /\ AllInactive(participants, UserRows(participants, m))
         /\ Cardinality(ActiveRows(participants, m)) <= 1 )
       => meetings[m].status \in {"completed", "not_answered"}

\* the evaluator of a leave ended a 1:1 call whose two users are gone while
\* an e-mail invitee is still active
C2_Witness ==
    \E m \in MeetingIds :
       /\ AnsweredOk("leave") /\ last.mid = m /\ last.purge
       /\ meetings[m].type = "instant"
       /\ Cardinality(UserRows(participants, m)) = 2
       /\ AllInactive(participants, UserRows(participants, m))
       /\ Cardinality(ActiveRows(participants, m)) = 1
       /\ meetings[m].status = "completed"

\* C3: in a non-terminal instant meeting with 2 user-participants,
\* mark-missed on an invited row sets the row to missed, the meeting to
\* not_answered with end_time set, deletes the meeting's chat messages and
\* calls the media room close.
C3_MissedCallIsNotAnswered ==
    [][\A m \in MeetingIds :
          ( /\ Handles("missed", m) /\ last'.code = Ok
            /\ last'.ref \in RowsOf(m)
            /\ participants[last'.ref].status = "invited"
            /\ meetings[m].type = "instant"
            /\ meetings[m].status \notin TerminalStatuses
            /\ Cardinality(UserRows(participants, m)) = 2 )
          => /\ participants'[last'.ref].status = "missed"
             /\ last'.row = participants'[last'.ref]
             /\ meetings'[m].status = "not_answered"
             /\ meetings'[m].end_time = now
             /\ meetings'[m].end_time # NoTime
             /\ \A k \in 1..Len(chat') : chat'[k].meeting_id # m
             /\ last'.roomClose /\ last'.purge]_vars

\* the invitee of a 1:1 call was marked missed and the call is not_answered
C3_Witness ==
    \E m \in MeetingIds :
       /\ AnsweredOk("missed") /\ last.mid = m
       /\ last.row.status = "missed" /\ last.row.user_id # NoUser
       /\ meetings[m].type = "instant"
       /\ Cardinality(RowsOf(m)) = 2
       /\ meetings[m].status = "not_answered"
       /\ last.roomClose /\ last.purge

\* C4 as stated: in a scheduled meeting of host H and invited users A and B,
\* once A and B have both declined and the host has not left, the evaluator
\* (run by the leave of an invitee) finds no active participant and the
\* meeting is completed.
C4_CompletedOnceInviteesDeclined ==
    \A m \in MeetingIds :
       ( /\ AnsweredOk("leave") /\ last.mid = m
         /\ last.actor # meetings[m].host_id
         /\ meetings[m].type = "scheduled"
         /\ Cardinality(RowsOf(m)) = 3
         /\ Cardinality(UserRows(participants, m)) = 3
         /\ \A i \in RowsOf(m) :
               IF participants[i].user_id = meetings[m].host_id
               THEN participants[i].role = "host" /\ participants[i].left_at = NoTime
               ELSE participants[i].status = "declined" )
       => meetings[m].status = "completed"

\* C4 amended: in a scheduled meeting, an accept, a decline or a leave that
\* leaves some participant active (the host's row, while the host has not
\* left) keeps the meeting's status; the status becomes completed by the
\* leave after which the evaluator finds no active participant.
C4_CompletedOnceNobodyIsActive ==
    [][\A m \in MeetingIds :
          ( /\ (Handles("leave", m) \/ Handles("update_status", m))
            /\ last'.code = Ok
            /\ meetings[m].type = "scheduled"
            /\ meetings[m].status \notin TerminalStatuses )
          => meetings'[m].status =
                IF last'.op = "leave" /\ ActiveRows(participants', m) = {}
                THEN "completed"
                ELSE meetings[m].status]_vars

\* the host left a scheduled meeting whose invitees A and B had declined, and
\* the meeting was completed by that leave
C4_Witness ==
    \E m \in MeetingIds :
       /\ AnsweredOk("leave") /\ last.mid = m /\ last.purge
       /\ last.actor = meetings[m].host_id
       /\ meetings[m].type = "scheduled"
       /\ Cardinality(UserRows(participants, m)) = 3
       /\ \A i \in RowsOf(m) : participants[i].status = "declined"
       /\ \E i \in RowsOf(m) : participants[i].user_id # meetings[m].host_id
                                 /\ participants[i].left_at = NoTime
       /\ meetings[m].status = "completed"

\* C5: end on a meeting that is already completed, cancelled or not_answered
\* is a no-op: it returns the stored record, changes neither the meeting nor
\* the chat, and calls neither the room close nor the chat purge.
C5_EndOnTerminalIsNoOp ==
    [][\A m \in MeetingIds :
          ( /\ Handles("end", m) /\ last'.code = Ok
            /\ meetings[m].status \in TerminalStatuses )
          => /\ last'.mtg = meetings[m]
             /\ meetings' = meetings
             /\ chat' = chat
             /\ ~last'.roomClose /\ ~last'.purge]_vars

\* C6: mark-missed on a row whose status is not invited changes no row and no
\* meeting and returns the row as stored.
C6_MissedOnlyFromInvited ==
    [][\A m \in MeetingIds :
          Handles("missed", m)
          => /\ \A i \in RowIds :
                   participants[i].status # "invited"
                      => participants'[i] = participants[i]
             /\ ( /\ last'.code = Ok
                  /\ last'.ref \in RowsOf(m)
                  /\ participants[last'.ref].status # "invited" )
                => /\ last'.row = participants[last'.ref]
                   /\ participants' = participants
                   /\ meetings' = meetings
                   /\ chat' = chat]_vars

\* mark-missed answered with an accepted row, which is still stored as accepted
C6_Witness ==
    /\ AnsweredOk("missed")
    /\ last.ref \in RowsOf(last.mid)
    /\ last.row.status = "accepted"
    /\ participants[last.ref] = last.row

\* C7: invite is idempotent per user.  An invite changes no stored row and
\* adds at most one; for a user who already has a row in the meeting it adds
\* none and answers with one of the user's rows as stored, so no invite makes
\* a second row for the same (meeting, user).
C7_InviteIsIdempotent ==
    [][\A m \in MeetingIds :
          Handles("invite", m)
          => /\ Len(participants') \in {Len(participants), Len(participants) + 1}
             /\ \A i \in RowIds : participants'[i] = participants[i]
             /\ \A u \in Users :
                   /\ Cardinality({i \in 1..Len(participants') :
                                      /\ participants'[i].meeting_id = m
                                      /\ participants'[i].user_id = u})
                         <= IF RowsOfUser(m, u) = {} THEN 1
                            ELSE Cardinality(RowsOfUser(m, u))
                   /\ ( /\ RowsOfUser(m, u) # {}
                        /\ last'.code = Ok /\ last'.row.user_id = u )
                      => /\ participants' = participants
                         /\ last'.row \in FirstOf(RowsOfUser(m, u))]_vars

\* an invite answered with the row of a user who had accepted before
C7_Witness ==
    /\ AnsweredOk("invite")
    /\ last.row.user_id \in Users
    /\ last.row.status = "accepted" /\ last.row.role = "attendee"
    /\ last.row.id \in RowsOfUser(last.mid, last.row.user_id)

\* the requests of the participant, chat and token endpoints
GatedOps ==
    {"token", "invite", "update_status", "leave", "missed", "chat_send", "chat_read"}

\* a is neither the host of m nor the user of a participant row of m
Outsider(m, a) == a \in Users /\ ~IsHost(m, a) /\ RowsOfUser(m, a) = {}

\* C8 as stated: on a meeting that is not open, every participant, chat and
\* token request of an actor who is neither host nor participant is answered
\* Forbidden and changes no meeting, participant or chat row.
C8_OutsiderIsForbidden ==
    [][\A m \in MeetingIds :
          ( /\ \E op \in GatedOps : Handles(op, m)
            /\ ~meetings[m].is_open
            /\ Outsider(m, last'.actor) )
          => /\ last'.code = Forbidden
             /\ UNCHANGED <<meetings, participants, chat>>]_vars

\* C8 amended: such a request changes no row and is answered Forbidden by
\* token issuance, invite, mark-missed, chat send and chat read; leave answers
\* NotFound (the actor has no participant row), and update_status answers
\* NotFound when its reference resolves to no row of the meeting and
\* Forbidden when it resolves to one.
C8_OutsiderIsRefused ==
    [][\A m \in MeetingIds :
          ( /\ \E op \in GatedOps : Handles(op, m)
            /\ ~meetings[m].is_open
            /\ Outsider(m, last'.actor) )
          => /\ last'.code =
                   IF last'.op = "leave" THEN NotFound
                   ELSE IF last'.op = "update_status"
                           /\ ResolveRef(m, last'.ref) = {} THEN NotFound
                   ELSE Forbidden
             /\ UNCHANGED <<meetings, participants, chat>>]_vars

\* an outsider's update_status on another user's row was answered Forbidden
C8_Witness ==
    /\ Answered("update_status")
    /\ ~meetings[last.mid].is_open
    /\ Outsider(last.mid, last.actor)
    /\ ResolveRef(last.mid, last.ref) # {}
    /\ last.code = Forbidden

\* C9: an issued token grants can_subscribe, can_publish_data and room_join,
\* names the meeting's room_name, and grants can_publish unless the meeting
\* is a webinar and the caller's role is attendee; the role is that of a
\* participant row of the caller, or attendee when the caller has none.
C9_TokenGrants ==
    AnsweredOk("token")
    => LET m == meetings[last.mid]
           roles == {participants[i].role : i \in RowsOfUser(last.mid, last.actor)}
       IN  /\ last.role \in (IF roles = {} THEN {"attendee"} ELSE roles)
           /\ last.grants.can_subscribe
           /\ last.grants.can_publish_data
           /\ last.grants.room_join
           /\ last.grants.room = m.room_name
           /\ last.grants.can_publish
                 <=> ~(m.type = "webinar" /\ last.role = "attendee")

\* a webinar attendee was issued a token without can_publish
C9_Witness ==
    /\ AnsweredOk("token")
    /\ meetings[last.mid].type = "webinar"
    /\ last.role = "attendee"
    /\ RowsOfUser(last.mid, last.actor) # {}
    /\ ~last.grants.can_publish /\ last.grants.can_subscribe

\* C10: token issuance for a caller without a participant row succeeds
\* exactly when the meeting is open, and then with role attendee; when the
\* meeting is not open it is answered Forbidden and no grant is produced.
C10_TokenWithoutRow ==
    (Answered("token") /\ RowsOfUser(last.mid, last.actor) = {})
    => IF meetings[last.mid].is_open
       THEN /\ last.code = Ok
            /\ last.role = "attendee"
            /\ last.grants = Grants(meetings[last.mid], "attendee")
       ELSE /\ last.code = Forbidden
            /\ last.role = "none"
            /\ last.grants = NoGrants

\* a user without a row was issued an attendee token for an open meeting
C10_Witness ==
    /\ AnsweredOk("token")
    /\ RowsOfUser(last.mid, last.actor) = {}
    /\ ~IsHost(last.mid, last.actor)
    /\ meetings[last.mid].is_open
    /\ last.role = "attendee"

\* C11: a participant row whose status is declined or missed keeps that
\* status, whatever operation follows.
C11_DeclinedAndMissedAreKept ==
    [][\A i \in RowIds :
          participants[i].status \in {"declined", "missed"}
             => participants'[i].status = participants[i].status]_vars

\* C12: a request of the meeting's host (token issuance, invite, end,
\* update_status, mark-missed, chat send, chat read) is never answered
\* Forbidden, whatever participant rows the meeting has.
C12_HostIsNeverForbidden ==
    ( /\ last.op \in MeetingOps
      /\ last.mid \in MeetingIds
      /\ IsHost(last.mid, last.actor) )
    => last.code # Forbidden

\* C13: invite and end are host-only.  On every meeting, open or not, an
\* invite or an end by an actor other than the meeting's host_id is answered
\* Forbidden and changes no meeting, participant or chat row.
C13_InviteAndEndAreHostOnly ==
    [][\A m \in MeetingIds :
          ( /\ Handles("invite", m) \/ Handles("end", m)
            /\ last'.actor # meetings[m].host_id )
          => /\ last'.code = Forbidden
             /\ UNCHANGED <<meetings, participants, chat>>]_vars

\* an assistant with an accepted row asked to end an open meeting and was
\* answered Forbidden
C13_Witness ==
    /\ Answered("end")
    /\ last.actor # meetings[last.mid].host_id
    /\ meetings[last.mid].is_open
    /\ \E i \in RowsOfUser(last.mid, last.actor) :
          participants[i].role = "assistant" /\ participants[i].status = "accepted"
    /\ last.code = Forbidden
    /\ meetings[last.mid].status = "scheduled"

\* the rows a participant reference of the path stands for: update_status
\* resolves it as a row id, then as a user id; mark-missed as a row id
TargetRows(op, m, ref) ==
    IF op = "update_status"
    THEN (IF RowsById(m, ref) # {} THEN RowsById(m, ref) ELSE RowsOfUser(m, ref))
    ELSE RowsById(m, ref)

\* C14: an update_status, a leave or a mark-missed by an actor who is
\* neither the meeting's host nor the user of a participant row leaves that
\* row's status, joined_at and left_at as they are, on open and closed
\* meetings; update_status and mark-missed aimed at that row are answered
\* Forbidden.
C14_OnlyOwnerOrHostChangesARow ==
    [][\A m \in MeetingIds :
          ( /\ \E op \in {"update_status", "leave", "missed"} : Handles(op, m)
            /\ last'.actor # meetings[m].host_id )
          => \A i \in RowsOf(m) :
                participants[i].user_id # last'.actor
                => /\ participants'[i].status = participants[i].status
                   /\ participants'[i].joined_at = participants[i].joined_at
                   /\ participants'[i].left_at = participants[i].left_at
                   /\ ( /\ last'.op \in {"update_status", "missed"}
                        /\ i \in TargetRows(last'.op, m, last'.ref) )
                      => last'.code = Forbidden]_vars

\* on an open meeting, the update_status of a user who is neither host nor
\* participant, aimed at the invited row of another, was answered Forbidden
C14_Witness ==
    /\ Answered("update_status")
    /\ meetings[last.mid].is_open
    /\ last.actor # meetings[last.mid].host_id
    /\ RowsOfUser(last.mid, last.actor) = {}
    /\ last.ref \in RowsById(last.mid, last.ref)
    /\ participants[last.ref].status = "invited"
    /\ last.code = Forbidden

\* C15: create is best-effort on participants.  Whether the insert of the
\* host row or of the invitee rows fails or not, create answers 201, the
\* meeting row exists with status scheduled and is the one returned, and the
\* returned participant list is exactly the rows that were inserted, in
\* order.
C15_CreateIsBestEffort ==
    [][(last = Idle /\ last'.op = "create")
          => /\ last'.code = Created
             /\ Len(meetings') = Len(meetings) + 1
             /\ last'.mid = Len(meetings')
             /\ meetings'[last'.mid].status = "scheduled"
             /\ last'.mtg = meetings'[last'.mid]
             /\ \A m \in MeetingIds : meetings'[m] = meetings[m]
             /\ participants' = participants \o last'.rows
             /\ \A k \in 1..Len(last'.rows) :
                   last'.rows[k].meeting_id = last'.mid]_vars

\* a create was answered 201 with an empty participant list: the meeting is
\* stored as scheduled and has no participant row, not even the host's
C15_Witness ==
    /\ last.op = "create" /\ last.code = Created
    /\ last.mid \in MeetingIds
    /\ meetings[last.mid].status = "scheduled"
    /\ last.rows = <<>>
    /\ RowsOf(last.mid) = {}

C17_ReferenceIsRowIdThenUserId ==
    [][\A m \in MeetingIds :
          Handles("update_status", m)
          => LET byId == {i \in RowIds : participants[i].meeting_id = m
                                           /\ participants[i].id = last'.ref}
                 byUser == {i \in RowIds : participants[i].meeting_id = m
                                             /\ participants[i].user_id = last'.ref}
                 found == IF byId # {} THEN byId ELSE byUser
             IN  /\ last'.code = NotFound <=> (byId = {} /\ byUser = {})
                 /\ last'.code = Ok
                    => /\ last'.row.id \in found
                       /\ participants'[last'.row.id] = last'.row
                       /\ \A i \in RowIds \ {last'.row.id} :
                             participants'[i] = participants[i]
                 /\ last'.code # Ok => participants' = participants]_vars

\* the reference was both the id of a row and the user id of another row's
\* user; the row with that id was updated, the other was not
C17_Witness ==
    /\ AnsweredOk("update_status")
    /\ last.row.id = last.ref
    /\ last.row.user_id # last.ref
    /\ last.row.status = "declined"
    /\ participants[last.ref] = last.row
    /\ \E i \in RowsOfUser(last.mid, last.ref) :
          i # last.ref /\ participants[i].status = "invited"

\* C18: the evaluator, run by a leave on a meeting that is not terminal,
\* makes the meeting completed exactly when either the type is instant and
\* (2 participants have a user reference and at most 1 participant is
\* active, or no participant is active), or the type is scheduled or webinar
\* and no participant is active; otherwise it leaves the meeting as it is.
\* Active: status not declined or missed, and left_at null; e-mail invitees
\* can be active and are not counted toward the 2.
C18_EvaluatorRule ==
    [][\A m \in MeetingIds :
          ( /\ Handles("leave", m) /\ last'.code = Ok
            /\ meetings[m].status \notin TerminalStatuses )
          => LET rows == {i \in 1..Len(participants') :
                             participants'[i].meeting_id = m}
                 active == {i \in rows :
                               /\ participants'[i].status \notin {"declined", "missed"}
                               /\ participants'[i].left_at = NoTime}
                 users == {i \in rows : participants'[i].user_id # NoUser}
                 ends == \/ /\ meetings[m].type = "instant"
                            /\ \/ Cardinality(users) = 2 /\ Cardinality(active) <= 1
                               \/ active = {}
                         \/ /\ meetings[m].type \in {"scheduled", "webinar"}
                            /\ active = {}
             IN  /\ meetings'[m].status = "completed" <=> ends
                 /\ ends => last'.roomClose /\ last'.purge
                 /\ ~ends => /\ meetings' = meetings /\ chat' = chat
                             /\ ~last'.roomClose /\ ~last'.purge]_vars

\* a leave ended an instant meeting with a single user-participant (the
\* host) once nobody was active: the e-mail invitee had been marked missed
C18_Witness ==
    /\ AnsweredOk("leave") /\ last.purge
    /\ meetings[last.mid].type = "instant"
    /\ meetings[last.mid].status = "completed"
    /\ Cardinality(UserRows(participants, last.mid)) = 1
    /\ Cardinality(RowsOf(last.mid)) = 2
    /\ ActiveRows(participants, last.mid) = {}

\* C19: in every reachable state a meeting with status not_answered is an
\* instant meeting with exactly 2 user-participants of which at least one is
\* missed; no scheduled or webinar meeting, and no instant meeting with
\* another number of user-participants, is not_answered.
C19_NotAnsweredIsOneToOne ==
    \A m \in MeetingIds :
       meetings[m].status = "not_answered"
       => /\ meetings[m].type = "instant"
          /\ Cardinality(UserRows(participants, m)) = 2
          /\ \E i \in UserRows(participants, m) : participants[i].status = "missed"

\* C20: every change of a meeting's status is a transition of the meeting
\* state machine: scheduled to active, active to completed, scheduled to
\* cancelled, or scheduled to not_answered.
C20_StatusFollowsStateMachine ==
    [][\A m \in MeetingIds :
          meetings'[m].status # meetings[m].status
          => <<meetings[m].status, meetings'[m].status>> \in
                {<<"scheduled", "active">>, <<"active", "completed">>,
                 <<"scheduled", "cancelled">>, <<"scheduled", "not_answered">>}]_vars

\* C21: the evaluator runs after every successful invited-to-missed
\* transition.  When a mark-missed has made a row missed, the meeting was not
\* terminal and is not marked not_answered by that step, and the evaluator's
\* rule holds on the rows as they then are, the meeting is completed when
\* mark-missed returns.
C21_EvaluatorRunsAfterMissed ==
    [][\A m \in MeetingIds :
          ( /\ Handles("missed", m) /\ last'.code = Ok
            /\ last'.ref \in RowsOf(m)
            /\ participants[last'.ref].status = "invited"
            /\ participants'[last'.ref].status = "missed"
            /\ meetings[m].status \notin TerminalStatuses
            /\ meetings'[m].status # "not_answered"
            /\ LET active == {i \in RowsOf(m) :
                                /\ participants'[i].status \notin {"declined", "missed"}
                                /\ participants'[i].left_at = NoTime}
                   users == {i \in RowsOf(m) : participants'[i].user_id # NoUser}
               IN  \/ /\ meetings[m].type = "instant"
                      /\ \/ Cardinality(users) = 2 /\ Cardinality(active) <= 1
                         \/ active = {}
                   \/ /\ meetings[m].type \in {"scheduled", "webinar"}
                      /\ active = {} )
          => meetings'[m].status = "completed"]_vars


\* C22: every meeting has exactly one participant row with role host, and it
\* is the row of the meeting's host; no sequence of create and invite calls
\* leaves a meeting with zero or with two or more host rows.
C22_ExactlyOneHostRow ==
    \A m \in MeetingIds :
        LET hostRows == {i \in RowsOf(m) : participants[i].role = "host"}
        IN  /\ Cardinality(hostRows) = 1
            /\ \A i \in hostRows : participants[i].user_id = meetings[m].host_id


\* C25: chat messages exist only for meetings that are not terminal; no chat
\* message is stored for a completed, cancelled or not_answered meeting.
C25_NoChatOnTerminalMeeting ==
    \A k \in 1..Len(chat) :
        /\ chat[k].meeting_id \in MeetingIds
        /\ meetings[chat[k].meeting_id].status \notin TerminalStatuses


\* C30: update_status changes only the targeted participant row, and there
\* only the status, plus joined_at when the new status is accepted; it leaves
\* the meeting (status, end_time), the chat and every other row unchanged and
\* tears nothing down, so a meeting whose participants have all declined
\* through update_status keeps its status.
C30_UpdateStatusChangesOneRow ==
    [][\A m \in MeetingIds :
          Handles("update_status", m) =>
              /\ meetings' = meetings
              /\ chat' = chat
              /\ ~last'.roomClose /\ ~last'.purge
              /\ Len(participants') = Len(participants)
              /\ last'.code # Ok => participants' = participants
              /\ last'.code = Ok =>
                    /\ last'.row.id \in RowsOf(m)
                    /\ \A i \in RowIds :
                          LET p == participants[i]
                              q == participants'[i]
                          IN  IF i # last'.row.id
                              THEN q = p
                              ELSE /\ q.status \in UpdateStatuses
                                   /\ [q EXCEPT !.status = p.status,
                                                !.joined_at = p.joined_at] = p
                                   /\ q.status # "accepted" => q.joined_at = p.joined_at
                                   /\ q.status = "accepted" => q.joined_at = now]_vars

\* update_status has declined the last active row of a meeting that stays
\* scheduled
C30_Witness ==
    /\ AnsweredOk("update_status")
    /\ last.row.status = "declined"
    /\ last.mid \in MeetingIds
    /\ Cardinality(RowsOf(last.mid)) >= 2
    /\ \A i \in RowsOf(last.mid) : participants[i].status = "declined"
    /\ meetings[last.mid].status = "scheduled"


\* C23: left_at is set at most once per participant row; once a row has a
\* left_at, no later operation, a repeated leave included, changes or clears
\* it.
C23_LeftAtIsSetOnce ==
    [][\A i \in RowIds :
          participants[i].left_at # NoTime
              => participants'[i].left_at = participants[i].left_at]_vars

\* C24: a meeting has an end_time only when its status is completed or
\* not_answered.
C24_EndTimeOnlyWhenEnded ==
    \A m \in MeetingIds :
        meetings[m].end_time # NoTime
            => meetings[m].status \in {"completed", "not_answered"}

\* C26: no two meetings ever have the same room_name, whenever they were
\* created.
C26_RoomNameIsUnique ==
    \A m1, m2 \in MeetingIds :
        m1 # m2 => meetings[m1].room_name # meetings[m2].room_name


\* C27: with terminating operations running concurrently on one meeting
\* (the evaluator of a leave, the host's end, the not_answered marking of a
\* mark-missed), interleaved at single store calls, only one of them writes
\* the terminal status and end_time: once the meeting is terminal, no later
\* store call changes its status or its end_time.
C27_TerminatedOnce ==
    [][\A m \in MeetingIds :
          meetings[m].status \in TerminalStatuses
              => /\ meetings'[m].status = meetings[m].status
                 /\ meetings'[m].end_time = meetings[m].end_time]_vars

\* C28: with mark-missed running concurrently with an accept or decline of
\* the same row, a status already changed to accepted or declined is never
\* overwritten by missed.
C28_MissedNeverOverwrites ==
    [][\A i \in RowIds :
          participants[i].status \in {"accepted", "declined"}
              => participants'[i].status # "missed"]_vars


\* every participant of meeting m is a user whose latest request is a leave
\* of m that has returned successfully
AllHaveLeft(m) ==
    /\ RowsOf(m) # {}
    /\ \A i \in RowsOf(m) :
          /\ participants[i].user_id \in Users
          /\ calls[participants[i].user_id].op = "leave"
          /\ calls[participants[i].user_id].pc = "returned"
          /\ calls[participants[i].user_id].mid = m
          /\ calls[participants[i].user_id].code = Ok

\* C29: with leave calls issued concurrently by all participants of a
\* meeting, each writing its row and then running the evaluator on the store
\* as it then is, the meeting is terminal once all the calls have returned:
\* no interleaving leaves it scheduled or active with no active participant.
C29_EndedOnceAllHaveLeft ==
    \A m \in MeetingIds :
        AllHaveLeft(m) /\ ActiveRows(participants, m) = {}
            => /\ meetings[m].status \in TerminalStatuses
               /\ meetings[m].end_time # NoTime

\* both participants of a scheduled meeting have left, at different clock
\* readings, and the meeting is completed
C29_Witness ==
    \E m \in MeetingIds :
        /\ AllHaveLeft(m)
        /\ ActiveRows(participants, m) = {}
        /\ Cardinality(RowsOf(m)) = 2
        /\ meetings[m].type = "scheduled"
        /\ meetings[m].status = "completed"
        /\ \E i, j \in RowsOf(m) :
              /\ participants[i].left_at # NoTime
              /\ participants[j].left_at # NoTime
              /\ participants[i].left_at < participants[j].left_at

====
